---- MODULE Spec2Model ----
(***************************************************************************)
(* Model of app/Services/Python/python_script.py: the loudspeaker response *)
(* engine calculate_speaker_response and the classes it drives             *)
(* (Loudspeaker, OpenAir, SealedBoxEnclosure, PortedBoxEnclosure).         *)
(*                                                                         *)
(* Numbers.  Values that the code holds as Python scalars (request         *)
(* parameters and the attributes computed from them in the constructors)   *)
(* are exact integers in a fixed-point unit named at each definition, so   *)
(* that the tests the interpreter makes on them (a zero divisor raises     *)
(* ZeroDivisionError) are decided exactly.  Values computed per frequency  *)
(* sample are numpy complex128/float64 expressions; they are kept as       *)
(* expression terms (records [op, ...]) built in the order the code        *)
(* evaluates them, so two results are equal in the model only if the code  *)
(* evaluates the same expression on the same operands.  A numpy division   *)
(* by zero yields inf/nan with a warning and does not raise.               *)
(***************************************************************************)
EXTENDS Integers, Sequences, FiniteSets, TLC

VARIABLES pc, params, frequencies, loudspeaker, enclosure, idx,
          spl, spl_port, spl_diaphragm, impedance, response,
          globals, ncalls, memo

vars == <<pc, params, frequencies, loudspeaker, enclosure, idx,
          spl, spl_port, spl_diaphragm, impedance, response,
          globals, ncalls, memo>>

(* ---------------------------------------------------------------------- *)
(* Bounds of the model                                                     *)
(* ---------------------------------------------------------------------- *)

\* Number of points of the frequency grid (the code asks for 500).
NumPoints == 4

(* ---------------------------------------------------------------------- *)
(* Module-level constants (fixed point)                                    *)
(* ---------------------------------------------------------------------- *)

\* Speed of sound, unit 0.1 m/s.
SOUND_CELERITY == 3448
\* Air density, unit 0.01 kg/m^3.
R_0 == 118
\* Atmospheric pressure, Pa.
P_0 == 100000
\* Adiabatic index, unit 0.1.
GAMMA == 14
\* Reference sound pressure, unit 1 uPa.
P_REF == 20
\* pi, unit 1e-4.
PI == 31416
\* Viscosity coefficient m, unit 1e-7 N.s/m^2.
M_VISCOSITY == 186
\* Fibre diameter R, unit 1e-6 m.
R_FIBRE == 60
\* Molecular mean free path, unit 1e-9 m.
LM == 60
\* Porosity, unit 0.01.
POROSITY == 99
\* Flow velocity in the material, unit 0.01 m/s.
U == 3
\* Generator resistance Rg set in Loudspeaker.__init__, unit 0.01 Ohm.
RG == 75
\* Series truncation limit of the ported enclosure.
TRUNCATION_LIMIT == 5
\* Cap radius r of the ported enclosure, unit 1 mm.
CAP_RADIUS == 150
\* Sweep limits handed to np.log10, Hz.
F_MIN == 20
F_MAX == 20000

\* The module namespace as it stands after import.
ModuleGlobals == [m |-> M_VISCOSITY, R |-> R_FIBRE]

(* ---------------------------------------------------------------------- *)
(* Expression terms                                                        *)
(* ---------------------------------------------------------------------- *)

Num(n) == [op |-> "num", v |-> n]
T1(o, x) == [op |-> o, x |-> x]
T2(o, x, y) == [op |-> o, x |-> x, y |-> y]
T3(o, x, y, z) == [op |-> o, x |-> x, y |-> y, z |-> z]

\* np.array([[a, b], [c, d]])
Matrix(a, b, c, d) == [op |-> "array", r1c1 |-> a, r1c2 |-> b, r2c1 |-> c, r2c2 |-> d]
\* A[i, j] (rows and columns counted from 1 here, from 0 in the code)
Entry(A, i, j) == [op |-> "entry", x |-> A, row |-> i, col |-> j]

(* ---------------------------------------------------------------------- *)
(* Exceptions                                                              *)
(* ---------------------------------------------------------------------- *)

Raise(msg) == [raised |-> TRUE, msg |-> msg, val |-> <<>>]
Return(v) == [raised |-> FALSE, msg |-> "", val |-> v]

\* str(KeyError(k))
KeyErrorStr(k) == "'" \o k \o "'"
ZeroDivisionStr == "division by zero"

\* The first key of the sequence ks that the mapping p lacks, "" if none.
RECURSIVE FirstMissing(_, _)
FirstMissing(ks, p) ==
    IF ks = <<>> THEN ""
    ELSE IF Head(ks) \notin DOMAIN p THEN Head(ks)
    ELSE FirstMissing(Tail(ks), p)

(* ---------------------------------------------------------------------- *)
(* Integer helpers                                                         *)
(* ---------------------------------------------------------------------- *)

\* floor of the square root of n >= 0
ISqrt(n) == CHOOSE r \in 0..1000 : r * r <= n /\ (r + 1) * (r + 1) > n

RECURSIVE Pow(_, _)
Pow(b, e) == IF e = 0 THEN 1 ELSE b * Pow(b, e - 1)

(* ---------------------------------------------------------------------- *)
(* The frequency grid: np.logspace(np.log10(20), np.log10(20000), 500)     *)
(* Logarithms are fixed point, unit 0.001 decade; frequencies are Hz.      *)
(* ---------------------------------------------------------------------- *)

\* 1000 * log10(d) for d = 1..10, rounded.
LogKnot == <<0, 301, 477, 602, 699, 778, 845, 903, 954, 1000>>

\* np.log10(x) for x = d * 10^n with d in 1..9
RECURSIVE Log10(_)
Log10(x) == IF x >= 10 THEN 1000 + Log10(x \div 10) ELSE LogKnot[x]

\* 10 ** y: the mantissa is interpolated between the knots of LogKnot.
Power10(y) ==
    LET n == y \div 1000
        r == y % 1000
        d == CHOOSE k \in 1..9 : LogKnot[k] <= r /\ r < LogKnot[k + 1]
        mant == 1000 * d + (1000 * (r - LogKnot[d])) \div (LogKnot[d + 1] - LogKnot[d])
    IN (mant * Pow(10, n)) \div 1000

\* Faulty variant of linspace: the step is (stop - start) / num, as with
\* endpoint=False, so the last point falls short of stop.
linspace_NoEndpoint(start, stop, num) ==
    [k \in 1..num |-> start + ((k - 1) * (stop - start)) \div num]

\* np.linspace(start, stop, num): endpoint included
linspace(start, stop, num) ==
    [k \in 1..num |-> start + ((k - 1) * (stop - start)) \div (num - 1)]

\* Faulty variant of logspace: the grid is laid out linearly from 0 Hz to
\* the upper limit (np.linspace(0, 10 ** stop, num)).
logspace_LinearFromZero(start, stop, num) == linspace(0, Power10(stop), num)

\* np.logspace(start, stop, num) = 10 ** linspace(start, stop, num)
logspace(start, stop, num) ==
    LET y == linspace(start, stop, num) IN [k \in 1..num |-> Power10(y[k])]

(* ---------------------------------------------------------------------- *)
(* Requests: the parameter mapping read from standard input                *)
(* ---------------------------------------------------------------------- *)

\* Keys in the order Loudspeaker.__init__ reads them.
DriverKeys == <<"re", "le", "z", "qes", "qms", "fs", "vas", "cms", "mms", "bl", "sd", "rms">>
\* Keys in the order the sealed branch reads them.
SealedKeys == <<"lx", "ly", "lz">>
\* Keys in the order the ported branch reads them.
PortedKeys == <<"lx", "ly", "lz", "port_length", "port_section_aeria">>

Range(sq) == {sq[k] : k \in DOMAIN sq}
NumericKeys == Range(DriverKeys) \cup Range(PortedKeys)

\* A well-formed request body without the selector: a 6 Ohm, 200 cm^2
\* driver and a 30 x 20 x 40 cm box with a 20 cm^2, 10 cm port.
BaseValue ==
    [re |-> 6, le |-> 1, z |-> 8, qes |-> 1, qms |-> 5, fs |-> 40, vas |-> 50,
     cms |-> 500, mms |-> 20, bl |-> 8, sd |-> 200, rms |-> 2,
     lx |-> 30, ly |-> 20, lz |-> 40, port_length |-> 10, port_section_aeria |-> 20]

\* Values a single parameter is replaced by.  sd and z go through np.sqrt
\* and are kept non-negative.
EditValues(k) ==
    CASE k \in {"sd", "z"} -> {0}
      [] k = "mms" -> {-1, 0, 1}
      [] k = "qes" -> {-5, -1, 0}
      [] OTHER -> {-1, 0}

Scenarios == {"open_air", "sealed", "ported", "horn"}

Restrict(f, S) == [k \in S |-> f[k]]

\* Bodies: the base, the base with one key removed, the base with one value
\* replaced, and the base with the box given as a volume "vb" (litres)
\* in place of lx, ly, lz.
Bodies ==
    {BaseValue}
    \cup {Restrict(BaseValue, NumericKeys \ {k}) : k \in NumericKeys}
    \cup UNION {{[BaseValue EXCEPT ![k] = v] : v \in EditValues(k)} : k \in NumericKeys}
    \cup {Restrict(BaseValue, NumericKeys \ Range(SealedKeys)) @@ [vb |-> 24]}

WithScenario(b) == {b} \cup {b @@ [scenario |-> s] : s \in Scenarios}
WithFlag(b) == {b} \cup {b @@ [port_diagram_response |-> v] : v \in BOOLEAN}

Requests == UNION {UNION {WithFlag(c) : c \in WithScenario(b)} : b \in Bodies}

\* parameters.get(key, default)
Get(p, key, default) == IF key \in DOMAIN p THEN p[key] ELSE default

(* ---------------------------------------------------------------------- *)
(* class Loudspeaker                                                       *)
(* ---------------------------------------------------------------------- *)

NoObject == [cls |-> "None"]

\* Loudspeaker.calculate_R_f: a closed form of the module constants; it
\* reads the module-level m and R.
calculate_R_f(g) == [op |-> "R_f", m |-> Num(g.m), R |-> Num(g.R)]

\* Loudspeaker.__init__(lsp_par), run with module namespace g.
\* Units: Le uH, e_g 0.01 V, Vas cm^3, Cms um/N, Mms and Mmd mg, Sd mm^2,
\* a mm, Qts 0.001, k_const 1e-6 rad/m.
Loudspeaker(lsp_par, g) ==
    LET missing == FirstMissing(DriverKeys, lsp_par)
        Sd == lsp_par.sd * 100
        a == ISqrt((Sd * 10000) \div PI)
        Mms == lsp_par.mms * 1000
    IN  IF missing # "" THEN Raise(KeyErrorStr(missing))
        ELSE IF lsp_par.qes + lsp_par.qms = 0 THEN Raise(ZeroDivisionStr)
        ELSE Return(
            [cls |-> "Loudspeaker",
             Re |-> lsp_par.re,
             Le |-> lsp_par.le * 1000,
             Znom |-> lsp_par.z,
             e_g |-> ISqrt(lsp_par.z * 10000),
             Qes |-> lsp_par.qes,
             Qms |-> lsp_par.qms,
             fs |-> lsp_par.fs,
             Vas |-> lsp_par.vas * 1000,
             Cms |-> lsp_par.cms,
             Mms |-> Mms,
             Bl |-> lsp_par.bl,
             Sd |-> Sd,
             a |-> a,
             Rms |-> lsp_par.rms,
             Rg |-> RG,
             Qts |-> (1000 * lsp_par.qes * lsp_par.qms) \div (lsp_par.qes + lsp_par.qms),
             Mmd |-> Mms - (16 * R_0 * a * a * a) \div 300000,
             k_const |-> (2 * PI * 1000) \div SOUND_CELERITY,
             R_f |-> calculate_R_f(g)])

\* Loudspeaker.calculate_wave_number(f): numpy arithmetic on f, never raises.
calculate_wave_number(lsp, f, g) ==
    [op |-> "k", f |-> Num(f), R_f |-> calculate_R_f(g)]

(* ---------------------------------------------------------------------- *)
(* Enclosure constructors                                                  *)
(* Units: lengths mm, areas mm^2, volumes cm^3.                            *)
(* ---------------------------------------------------------------------- *)

\* OpenAir.__init__
OpenAir(lsp) == [cls |-> "OpenAir", loudspeaker |-> lsp]

\* SealedBoxEnclosure.__init__
SealedBoxEnclosure(lsp, lx, ly, lz) ==
    [cls |-> "SealedBoxEnclosure", lsp |-> lsp,
     lx |-> lx * 10, ly |-> ly * 10, lz |-> lz * 10,
     Vb |-> ((lx * 10) * (ly * 10) * (lz * 10)) \div 1000]

\* PortedBoxEnclosure.__init__
PortedBoxEnclosure(lsp, lx, ly, lz, port_length, port_section_aeria) ==
    LET Vb == ((lx * 10) * (ly * 10) * (lz * 10)) \div 1000
        Sp == port_section_aeria * 100
        Vp == (Sp * (port_length * 10)) \div 1000
    IN  [cls |-> "PortedBoxEnclosure", lsp |-> lsp,
         lx |-> lx * 10, ly |-> ly * 10, lz |-> lz * 10,
         port_length |-> port_length * 10,
         port_section_aeria |-> port_section_aeria * 100,
         truncation_limit |-> TRUNCATION_LIMIT,
         r |-> CAP_RADIUS,
         Vb |-> Vb, Sp |-> Sp, Vp |-> Vp, Vab |-> Vb - Vp,
         Va |-> 0, Vm |-> 0]

(* ---------------------------------------------------------------------- *)
(* Terms shared by the enclosure models                                    *)
(* ---------------------------------------------------------------------- *)

\* np.dot(X, Y)
Dot(X, Y) == [op |-> "dot", x |-> X, y |-> Y]
Inv(x) == T2("div", Num(1), x)

\* Z_e = Re + 1j * 2 * pi * f * Le
ElectricalImpedance(lsp, f) == [op |-> "Z_e", Re |-> lsp.Re, Le |-> lsp.Le, f |-> f]

\* Mmd as the per-sample methods recompute it from Mms and a;
\* Z_md = 1j * 2 * pi * f * Mmd + Rms + 1 / (1j * 2 * pi * f * Cms)
MechanicalImpedance(lsp, f) ==
    [op |-> "Z_md", f |-> f,
     Mmd |-> lsp.Mms - (16 * R_0 * lsp.a * lsp.a * lsp.a) \div 300000,
     Rms |-> lsp.Rms, Cms |-> lsp.Cms]

\* calculate_diaphragm_radiation_impedance(f), the same in both box classes
calculate_diaphragm_radiation_impedance(lsp, f, g) ==
    [op |-> "Z_rad", k |-> calculate_wave_number(lsp, f, g), a |-> lsp.a]

\* calculate_simplified_box_impedance_Zab(f, B), the same in both box
\* classes; B in 0.01.  lx * ly and 1.4 * Vm are Python floats: a zero
\* divisor raises.
calculate_simplified_box_impedance_Zab(box, f, B) ==
    IF box.lx * box.ly = 0 THEN Raise(ZeroDivisionStr)
    ELSE IF box.Vb = 0 THEN Raise(ZeroDivisionStr)
    ELSE Return([op |-> "Zab", f |-> f, B |-> B, Vb |-> box.Vb,
                 a |-> box.lsp.a, lx |-> box.lx, ly |-> box.ly])

\* The stages of the transmission-line chain
StageC(Z_e) == Matrix(Num(1), Z_e, Num(0), Num(1))
StageE(lsp) == Matrix(Num(0), Num(lsp.Bl), Inv(Num(lsp.Bl)), Num(0))
StageD(Z_md) == Matrix(Num(1), Z_md, Num(0), Num(1))
StageM(lsp) == Matrix(Num(lsp.Sd), Num(0), Num(0), Inv(Num(lsp.Sd)))
StageF(Z_a) == Matrix(Num(1), Z_a, Num(0), Num(1))
StageL(Ral) == Matrix(Num(1), Num(0), Inv(Ral), Num(1))
StageB(Zab) == Matrix(Num(1), Num(0), Inv(Zab), Num(1))
StageP(kp, t, Zp) ==
    LET kpt == T2("mul", kp, Num(t))
    IN  Matrix(T1("cos", kpt), T3("mul", Num(1), Zp, T1("j_sin", kpt)),
               T3("mul", Num(1), Inv(Zp), T1("j_sin", kpt)), T1("cos", kpt))
StageR(Z_a2) == Matrix(Num(1), Num(0), Inv(Z_a2), Num(1))

\* U_ref = (e_g * Bl * Sd) / (2 * pi * f * Mms * Re) is a numpy value;
\* float(abs(U_ref)) is 0.0 exactly when the numerator is zero and the
\* denominator is not (a zero denominator gives inf or nan).
ReferenceVelocityIsZero(lsp) ==
    lsp.e_g * lsp.Bl * lsp.Sd = 0 /\ lsp.Mms * lsp.Re # 0

\* 20 * np.log10(float(abs(p)) / float(abs(pref))), pref = 20e-6
SoundPressureLevel(p) == T2("20log10_ratio", T1("abs", p), Num(P_REF))

(* ---------------------------------------------------------------------- *)
(* class OpenAir                                                           *)
(* ---------------------------------------------------------------------- *)

\* OpenAir.calculate_impedance(f): Bl**2 / Rms and 1j / Qms divide Python
\* scalars.
OpenAir_calculate_impedance(enc, f, g) ==
    LET lsp == enc.loudspeaker
    IN  IF lsp.Rms = 0 THEN Raise(ZeroDivisionStr)
        ELSE IF lsp.Qms = 0 THEN Raise(ZeroDivisionStr)
        ELSE Return(T1("abs", T2("add", ElectricalImpedance(lsp, f),
                    [op |-> "Zem", Bl |-> lsp.Bl, Rms |-> lsp.Rms,
                     Qms |-> lsp.Qms, fs |-> lsp.fs, f |-> f])))

\* OpenAir.calculate_spl(f): every division has a numpy operand.
OpenAir_calculate_spl(enc, f, g) ==
    LET lsp == enc.loudspeaker
        Z_MT == [op |-> "Z_MT", f |-> f, a |-> lsp.a, Bl |-> lsp.Bl, Rg |-> lsp.Rg,
                 Re |-> lsp.Re, Le |-> lsp.Le, Mmd |-> lsp.Mmd, Rms |-> lsp.Rms,
                 Cms |-> lsp.Cms, Sd |-> lsp.Sd]
        u_c == [op |-> "u_c", e_g |-> lsp.e_g, Bl |-> lsp.Bl, Rg |-> lsp.Rg,
                Re |-> lsp.Re, Le |-> lsp.Le, f |-> f, Z_MT |-> Z_MT]
        p_rms == T3("mul", Num(R_0), T2("mul", Num(f), Num(lsp.Sd)), u_c)
    IN  Return(T2("20log10_ratio", p_rms, Num(P_REF)))

(* ---------------------------------------------------------------------- *)
(* class SealedBoxEnclosure                                                *)
(* ---------------------------------------------------------------------- *)

\* B = 0.46, unit 0.01
SEALED_B == 46

\* Faulty variant of SealedChain: the box stage is applied before the
\* diaphragm load.
SealedChain_BoxBeforeLoad(C, E, D, M, F, B) == Dot(Dot(Dot(Dot(Dot(C, E), D), M), B), F)

\* A = np.dot(np.dot(np.dot(np.dot(np.dot(C, E), D), M), F), B)
SealedChain(C, E, D, M, F, B) == Dot(Dot(Dot(Dot(Dot(C, E), D), M), F), B)

\* Z_tot = a11 / a21 with a11 = A[0, 0], a21 = A[1, 0]
TotalImpedance(A) == T2("div", Entry(A, 1, 1), Entry(A, 2, 1))

\* The part common to calculate_impedance and calculate_spl: the terminal
\* impedances and the matrix A, or the exception raised on the way.
SealedNetwork(box, f, g) ==
    LET lsp == box.lsp
        zab == calculate_simplified_box_impedance_Zab(box, f, SEALED_B)
    IN  IF zab.raised THEN zab
        ELSE IF lsp.Bl = 0 THEN Raise(ZeroDivisionStr)
        ELSE IF lsp.Sd = 0 THEN Raise(ZeroDivisionStr)
        ELSE Return(
            [Zab |-> zab.val,
             A |-> SealedChain(StageC(ElectricalImpedance(lsp, f)), StageE(lsp),
                               StageD(MechanicalImpedance(lsp, f)), StageM(lsp),
                               StageF(calculate_diaphragm_radiation_impedance(lsp, f, g)),
                               StageB(zab.val))])

\* SealedBoxEnclosure.calculate_impedance(f)
Sealed_calculate_impedance(box, f, g) ==
    LET net == SealedNetwork(box, f, g)
    IN  IF net.raised THEN net
        ELSE Return(T1("abs", TotalImpedance(net.val.A)))

\* SealedBoxEnclosure.calculate_spl(f)
Sealed_calculate_spl(box, f, g) ==
    LET net == SealedNetwork(box, f, g)
        p_6 == T2("div", Num(box.lsp.e_g), Entry(net.val.A, 1, 1))
        U_c == T2("div", p_6, net.val.Zab)
    IN  IF net.raised THEN net
        ELSE IF ReferenceVelocityIsZero(box.lsp) THEN Raise(ZeroDivisionStr)
        ELSE Return(SoundPressureLevel(T3("mul", Num(R_0), Num(f), U_c)))

(* ---------------------------------------------------------------------- *)
(* class PortedBoxEnclosure                                                *)
(* ---------------------------------------------------------------------- *)

\* B = 0.3, unit 0.01
PORTED_B == 30

\* calculate_port(): fb = (c / (2 pi port_length)) * sqrt(Vp / Vab); both
\* divisions are between Python floats.  Returns (Sp, t, fb).
calculate_port(box) ==
    IF box.port_length = 0 THEN Raise(ZeroDivisionStr)
    ELSE IF box.Vab = 0 THEN Raise(ZeroDivisionStr)
    ELSE Return([Sp |-> box.Sp, t |-> box.port_length,
                 fb |-> [op |-> "fb", t |-> box.port_length, Vp |-> box.Vp, Vab |-> box.Vab]])

\* Cab = CAA + GAMMA * CAM with CAA = Va / (GAMMA * P_0), CAM = Vm / P_0;
\* unit 1e-13 m^5/N.
ApparentCompliance(box) == (box.Va * 1000) \div GAMMA + box.Vm * 10 * GAMMA

\* calculate_leakage_resistance(): Ral = 7 / (2 * pi * fb * Cab); fb is a
\* numpy value, so a zero Cab gives inf and does not raise.
calculate_leakage_resistance(box) ==
    LET port == calculate_port(box)
    IN  IF port.raised THEN port
        ELSE Return([op |-> "Ral", fb |-> port.val.fb, Cab |-> ApparentCompliance(box)])

\* Faulty variant of PortImpedanceNamespace: m is declared global in the
\* method, so the loops leave the module-level m at their last index.
PortImpedanceNamespace_GlobalM(g) == [g EXCEPT !.m = TRUNCATION_LIMIT]

\* The module namespace after the loops "for m in range(...)" of
\* calculate_port_impedance_Za2: m is a local name of the method.
PortImpedanceNamespace(g) == g

\* Faulty variant of MatrixAssemblyNamespace: R is declared global in the
\* method, so the module-level R is left bound to the radiation stage
\* np.array([[1, 0], [1 / Z_a2, 1]]); it is recorded by its [0, 0] entry, 1.
MatrixAssemblyNamespace_GlobalR(g) == [g EXCEPT !.R = 1]

\* The module namespace after "R = np.array(...)" in calculate_impedance and
\* calculate_spl: R is a local name of the method.
MatrixAssemblyNamespace(g) == g

\* calculate_port_impedance_Za2(f, r_d): q = lx / ly divides Python floats,
\* and fm evaluates q ** (-2).
calculate_port_impedance_Za2(box, f, r_d, g) ==
    IF box.ly = 0 THEN Raise(ZeroDivisionStr)
    ELSE IF box.lx = 0 THEN Raise(ZeroDivisionStr)
    ELSE Return([op |-> "Z_a2", k |-> calculate_wave_number(box.lsp, f, g),
                 lx |-> box.lx, ly |-> box.ly, Sp |-> box.Sp, r_d |-> r_d,
                 truncation_limit |-> box.truncation_limit])

\* A = np.dot(np.dot(np.dot(np.dot(np.dot(np.dot(np.dot(np.dot(C, E), D), M), F), L), B), P), R)
PortedChain(C, E, D, M, F, L, B, P, R) ==
    Dot(Dot(Dot(Dot(Dot(Dot(Dot(Dot(C, E), D), M), F), L), B), P), R)

\* The part common to calculate_impedance and calculate_spl.
PortedNetwork(box, f, g) ==
    LET lsp == box.lsp
        port == calculate_port(box)
        Sp == port.val.Sp
        t == port.val.t
        ap == [op |-> "ap", Sp |-> Sp]
        zab == calculate_simplified_box_impedance_Zab(box, f, PORTED_B)
        Z_a1 == calculate_diaphragm_radiation_impedance(lsp, f, g)
        ral == calculate_leakage_resistance(box)
        kp == [op |-> "kp", f |-> f]
        Zp == [op |-> "Zp", Sp |-> Sp]
        kv == [op |-> "kv", f |-> f, m |-> g.m]
        r_d == [op |-> "r_d", LM |-> LM, ap |-> ap, kv |-> kv]
        za2 == calculate_port_impedance_Za2(box, f, r_d, g)
        B == StageB(zab.val)
        P == StageP(kp, t, Zp)
        R == StageR(za2.val)
    IN  IF port.raised THEN port
        ELSE IF zab.raised THEN zab
        ELSE IF ral.raised THEN ral
        ELSE IF Sp = 0 THEN Raise(ZeroDivisionStr)
        ELSE IF za2.raised THEN za2
        ELSE IF lsp.Bl = 0 THEN Raise(ZeroDivisionStr)
        ELSE IF lsp.Sd = 0 THEN Raise(ZeroDivisionStr)
        ELSE Return(
            [Z_a2 |-> za2.val, B |-> B, P |-> P, R |-> R,
             A |-> PortedChain(StageC(ElectricalImpedance(lsp, f)), StageE(lsp),
                               StageD(MechanicalImpedance(lsp, f)), StageM(lsp),
                               StageF(Z_a1), StageL(ral.val), B, P, R)])

\* PortedBoxEnclosure.calculate_impedance(f)
Ported_calculate_impedance(box, f, g) ==
    LET net == PortedNetwork(box, f, g)
    IN  IF net.raised THEN net
        ELSE Return(T1("abs", TotalImpedance(net.val.A)))

\* PortedBoxEnclosure.calculate_spl(f): returns (SPL, SPL_port, SPL_diaphragm)
Ported_calculate_spl(box, f, g) ==
    LET net == PortedNetwork(box, f, g)
        p9 == T2("div", Num(box.lsp.e_g), Entry(net.val.A, 1, 1))
        Up == T2("div", p9, net.val.Z_a2)
        n21 == Entry(Dot(Dot(net.val.B, net.val.P), net.val.R), 2, 1)
        U6 == T2("mul", n21, p9)
        UB == T2("mul", T2("sub", n21, Inv(net.val.Z_a2)), p9)
    IN  IF net.raised THEN net
        ELSE IF ReferenceVelocityIsZero(box.lsp) THEN Raise(ZeroDivisionStr)
        ELSE Return(<<SoundPressureLevel(T3("mul", Num(R_0), Num(f), UB)),
                      SoundPressureLevel(T3("mul", Num(R_0), Num(f), Up)),
                      SoundPressureLevel(T3("mul", Num(R_0), Num(f), U6))>>)

(* ---------------------------------------------------------------------- *)
(* calculate_speaker_response(parameters)                                  *)
(* ---------------------------------------------------------------------- *)

\* What the function hands back: a dict, or None when it falls off its end.
Dict(body) == [tag |-> "dict", body |-> body]
None == [tag |-> "None", body |-> <<>>]
\* except Exception as e: return {"error": str(e)}
ErrorEnvelope(msg) == Dict([error |-> msg])

\* Dynamic dispatch of enclosure.calculate_spl(f)
calculate_spl(enc, f, g) ==
    CASE enc.cls = "OpenAir" -> OpenAir_calculate_spl(enc, f, g)
      [] enc.cls = "SealedBoxEnclosure" -> Sealed_calculate_spl(enc, f, g)
      [] enc.cls = "PortedBoxEnclosure" -> Ported_calculate_spl(enc, f, g)

\* Dynamic dispatch of enclosure.calculate_impedance(f)
calculate_impedance(enc, f, g) ==
    CASE enc.cls = "OpenAir" -> OpenAir_calculate_impedance(enc, f, g)
      [] enc.cls = "SealedBoxEnclosure" -> Sealed_calculate_impedance(enc, f, g)
      [] enc.cls = "PortedBoxEnclosure" -> Ported_calculate_impedance(enc, f, g)

\* Faulty variant of EnclosureAfterSample: a per-frequency method of the
\* ported box stores the volumes it derives from Vb (Va = 3/4 Vb,
\* Vm = Vb/4) in the attributes self.Va and self.Vm when it returns.
EnclosureAfterSample_StoresVolumes(enc) ==
    IF enc.cls = "PortedBoxEnclosure"
    THEN [enc EXCEPT !.Va = (3 * enc.Vb) \div 4, !.Vm = enc.Vb \div 4]
    ELSE enc

\* The enclosure object (its Loudspeaker included) after one per-frequency
\* call: no calculate_* method assigns to an attribute of self or of
\* self.lsp; Va, Vm, CAA, CAM, ... are locals of the methods.
EnclosureAfterSample(enc) == enc

\* The module namespace after one per-frequency call on enc.
NamespaceAfterSample(enc, g) ==
    IF enc.cls = "PortedBoxEnclosure"
    THEN MatrixAssemblyNamespace(PortImpedanceNamespace(g))
    ELSE g

\* Faulty variant of MainSpl: with the breakdown requested the triples are
\* unpacked as spl_port, spl, spl_diaphragm.
MainSpl_PortWhenSplit(split, triple) == IF split THEN triple[2] ELSE triple[1]

\* The total SPL taken from the triple PortedBoxEnclosure.calculate_spl
\* returns: the first row of zip(*[...]) with the breakdown requested,
\* calculate_spl(f)[0] without it.
MainSpl(split, triple) == triple[1]

\* Faulty variant of SelectEnclosure: a geometry key the request lacks is
\* read as 0 (parameters.get(key, 0)) instead of raising KeyError.
SelectEnclosure_MissingAsZero(scenario, lsp, parameters) ==
    CASE scenario = "open_air" -> Return(OpenAir(lsp))
      [] scenario = "sealed" ->
           Return(SealedBoxEnclosure(lsp, Get(parameters, "lx", 0), Get(parameters, "ly", 0),
                                     Get(parameters, "lz", 0)))
      [] scenario = "ported" ->
           Return(PortedBoxEnclosure(lsp, Get(parameters, "lx", 0), Get(parameters, "ly", 0),
                                     Get(parameters, "lz", 0),
                                     Get(parameters, "port_length", 0),
                                     Get(parameters, "port_section_aeria", 0)))
      [] OTHER -> Return(NoObject)

\* The enclosure the selector picks, built from the request; NoObject when
\* no branch of the if/elif chain matches.
SelectEnclosure(scenario, lsp, parameters) ==
    LET missingSealed == FirstMissing(SealedKeys, parameters)
        missingPorted == FirstMissing(PortedKeys, parameters)
    IN  CASE scenario = "open_air" -> Return(OpenAir(lsp))
          [] scenario = "sealed" ->
               IF missingSealed # "" THEN Raise(KeyErrorStr(missingSealed))
               ELSE Return(SealedBoxEnclosure(lsp, parameters.lx, parameters.ly, parameters.lz))
          [] scenario = "ported" ->
               IF missingPorted # "" THEN Raise(KeyErrorStr(missingPorted))
               ELSE Return(PortedBoxEnclosure(lsp, parameters.lx, parameters.ly, parameters.lz,
                                              parameters.port_length,
                                              parameters.port_section_aeria))
          [] OTHER -> Return(NoObject)

\* Lines 676-703: the selector, the grid, the driver and the enclosure.
Setup(parameters, g) ==
    LET lsp == Loudspeaker(parameters, g)
        enc == SelectEnclosure(parameters.scenario, lsp.val, parameters)
    IN  IF "scenario" \notin DOMAIN parameters THEN Raise(KeyErrorStr("scenario"))
        ELSE IF lsp.raised THEN lsp
        ELSE IF enc.raised THEN enc
        ELSE Return([frequencies |-> logspace(Log10(F_MIN), Log10(F_MAX), NumPoints),
                     loudspeaker |-> lsp.val, enclosure |-> enc.val])

\* Faulty variant of PortDiagramResponse: the default is True.
PortDiagramResponse_DefaultTrue(parameters) == Get(parameters, "port_diagram_response", TRUE)

\* port_diagram_response = parameters.get("port_diagram_response", False)
PortDiagramResponse(parameters) == Get(parameters, "port_diagram_response", FALSE)

\* The dict returned after both sweeps.
Results(parameters, freqs, s, sp, sd, imp) ==
    LET scenario == parameters.scenario
        base == [frequencies |-> freqs, spl |-> (scenario :> s),
                 impedance |-> (scenario :> imp)]
    IN  IF scenario = "ported" /\ PortDiagramResponse(parameters)
        THEN Dict(base @@ [spl_port |-> (scenario :> sp),
                           spl_diaphragm |-> (scenario :> sd)])
        ELSE Dict(base)

(* ---------------------------------------------------------------------- *)
(* State machine: one invocation at a time, sample by sample               *)
(* ---------------------------------------------------------------------- *)

\* Requests whose first answer is kept for comparison with later answers
\* to the same request: one per topology, one that fails inside the sweep,
\* one without selector.
Probes ==
    {BaseValue @@ [scenario |-> "open_air"],
     BaseValue @@ [scenario |-> "sealed"],
     BaseValue @@ [scenario |-> "ported", port_diagram_response |-> TRUE],
     [BaseValue EXCEPT !.lz = 0] @@ [scenario |-> "sealed"],
     BaseValue}

NoMemo == [set |-> FALSE, req |-> <<>>, resp |-> None, between |-> FALSE]

Init ==
    /\ pc = "idle"
    /\ params = <<>>
    /\ frequencies = <<>>
    /\ loudspeaker = NoObject
    /\ enclosure = NoObject
    /\ idx = 0
    /\ spl = <<>>
    /\ spl_port = <<>>
    /\ spl_diaphragm = <<>>
    /\ impedance = <<>>
    /\ response = None
    /\ globals = ModuleGlobals
    /\ ncalls = 0
    /\ memo = NoMemo

\* calculate_speaker_response is entered with parameters p and runs up to
\* the first list comprehension (or to its return, when it ends before).
Call(p) ==
    /\ pc = "idle"
    /\ params' = p
    /\ ncalls' = 0
    /\ spl' = <<>> /\ spl_port' = <<>> /\ spl_diaphragm' = <<>> /\ impedance' = <<>>
    /\ LET r == Setup(p, globals)
       IN  IF r.raised
           THEN /\ response' = ErrorEnvelope(r.msg)
                /\ pc' = "returned"
                /\ idx' = 0
                /\ frequencies' = <<>> /\ loudspeaker' = NoObject /\ enclosure' = NoObject
           ELSE IF r.val.enclosure.cls = "None"
           THEN /\ response' = None
                /\ pc' = "returned"
                /\ idx' = 0
                /\ frequencies' = r.val.frequencies
                /\ loudspeaker' = r.val.loudspeaker
                /\ enclosure' = NoObject
           ELSE /\ response' = None
                /\ pc' = "spl"
                /\ idx' = 1
                /\ frequencies' = r.val.frequencies
                /\ loudspeaker' = r.val.loudspeaker
                /\ enclosure' = r.val.enclosure
    /\ UNCHANGED <<globals, memo>>

\* One element of [enclosure.calculate_spl(f) for f in frequencies].
SplSample ==
    /\ pc = "spl"
    /\ ncalls' = ncalls + 1
    /\ LET r == calculate_spl(enclosure, frequencies[idx], globals)
           ported == enclosure.cls = "PortedBoxEnclosure"
           split == ported /\ PortDiagramResponse(params)
       IN  IF r.raised
           THEN /\ response' = ErrorEnvelope(r.msg)
                /\ pc' = "returned"
                /\ UNCHANGED <<idx, spl, spl_port, spl_diaphragm, globals, enclosure>>
           ELSE /\ spl' = Append(spl, IF ported THEN MainSpl(split, r.val) ELSE r.val)
                /\ spl_port' = IF split THEN Append(spl_port, r.val[2]) ELSE spl_port
                /\ spl_diaphragm' = IF split THEN Append(spl_diaphragm, r.val[3])
                                    ELSE spl_diaphragm
                /\ globals' = NamespaceAfterSample(enclosure, globals)
                /\ enclosure' = EnclosureAfterSample(enclosure)
                /\ IF idx < Len(frequencies)
                   THEN idx' = idx + 1 /\ pc' = "spl"
                   ELSE idx' = 1 /\ pc' = "impedance"
                /\ UNCHANGED response
    /\ UNCHANGED <<params, frequencies, loudspeaker, impedance, memo>>

\* One element of [enclosure.calculate_impedance(f) for f in frequencies];
\* after the last one the result dict is returned.
ImpedanceSample ==
    /\ pc = "impedance"
    /\ ncalls' = ncalls + 1
    /\ LET r == calculate_impedance(enclosure, frequencies[idx], globals)
       IN  IF r.raised
           THEN /\ response' = ErrorEnvelope(r.msg)
                /\ pc' = "returned"
                /\ UNCHANGED <<idx, impedance, globals, enclosure>>
           ELSE /\ impedance' = Append(impedance, r.val)
                /\ globals' = NamespaceAfterSample(enclosure, globals)
                /\ enclosure' = EnclosureAfterSample(enclosure)
                /\ IF idx < Len(frequencies)
                   THEN /\ idx' = idx + 1 /\ pc' = "impedance"
                        /\ UNCHANGED response
                   ELSE /\ idx' = idx /\ pc' = "returned"
                        /\ response' = Results(params, frequencies, spl, spl_port,
                                               spl_diaphragm, Append(impedance, r.val))
    /\ UNCHANGED <<params, frequencies, loudspeaker,
                   spl, spl_port, spl_diaphragm, memo>>

\* The caller takes the answer; the objects of the invocation are dropped.
\* The observer notes whether a request other than the kept one was served.
Finish ==
    /\ pc = "returned"
    /\ pc' = "idle"
    /\ params' = <<>> /\ frequencies' = <<>>
    /\ loudspeaker' = NoObject /\ enclosure' = NoObject
    /\ idx' = 0 /\ ncalls' = 0
    /\ spl' = <<>> /\ spl_port' = <<>> /\ spl_diaphragm' = <<>> /\ impedance' = <<>>
    /\ response' = None
    /\ memo' = IF memo.set /\ memo.req # params
               THEN [memo EXCEPT !.between = TRUE] ELSE memo
    /\ UNCHANGED globals

\* As Finish, and the observer keeps the request and its answer.
FinishAndKeep ==
    /\ pc = "returned"
    /\ ~memo.set
    /\ params \in Probes
    /\ memo' = [set |-> TRUE, req |-> params, resp |-> response, between |-> FALSE]
    /\ pc' = "idle"
    /\ params' = <<>> /\ frequencies' = <<>>
    /\ loudspeaker' = NoObject /\ enclosure' = NoObject
    /\ idx' = 0 /\ ncalls' = 0
    /\ spl' = <<>> /\ spl_port' = <<>> /\ spl_diaphragm' = <<>> /\ impedance' = <<>>
    /\ response' = None
    /\ UNCHANGED globals

Next ==
    \/ \E p \in Requests : Call(p)
    \/ SplSample
    \/ ImpedanceSample
    \/ Finish
    \/ FinishAndKeep

Spec == Init /\ [][Next]_vars

(* ---------------------------------------------------------------------- *)
(* Vocabulary of the properties                                            *)
(* ---------------------------------------------------------------------- *)

Topologies == {"open_air", "sealed", "ported"}
Returned == pc = "returned"

IsErrorEnvelope(r) == r.tag = "dict" /\ DOMAIN r.body = {"error"}
HasResults(r) == r.tag = "dict" /\ {"frequencies", "spl", "impedance"} \subseteq DOMAIN r.body
HasSelector(p) == "scenario" \in DOMAIN p
\* The keys the topology of p needs besides the selector.
RequiredKeys(p) ==
    Range(DriverKeys)
    \cup (IF HasSelector(p) /\ p.scenario = "sealed" THEN Range(SealedKeys) ELSE {})
    \cup (IF HasSelector(p) /\ p.scenario = "ported" THEN Range(PortedKeys) ELSE {})
LacksRequired(p) == ~HasSelector(p) \/ ~(RequiredKeys(p) \subseteq DOMAIN p)
\* Every driver parameter is there and the driver can be built from them.
DriverValid(p) ==
    /\ Range(DriverKeys) \subseteq DOMAIN p
    /\ \A k \in Range(DriverKeys) : p[k] > 0
StrictlyIncreasing(sq) == \A a, b \in DOMAIN sq : a < b => sq[a] < sq[b]

(* ---------------------------------------------------------------------- *)
(* C1 *)
(* ---------------------------------------------------------------------- *)

\* C1: a request whose selector is present but is none of open_air, sealed,
\* ported, with valid driver parameters, is answered by the error envelope:
\* a mapping with the single key "error" and no result arrays.
C1_InvalidSelectorIsAnError ==
    (Returned /\ HasSelector(params) /\ params.scenario \notin Topologies
        /\ DriverValid(params))
    => IsErrorEnvelope(response)

(* ---------------------------------------------------------------------- *)
(* C2 *)
(* ---------------------------------------------------------------------- *)

\* C2: a request that lacks a required parameter of its topology (the
\* selector, a driver parameter, a box edge for sealed or ported, the port
\* length or area for ported) fails before any calculate_spl or
\* calculate_impedance call and is answered by a mapping whose only key is
\* "error".
C2_MissingParameterFailsBeforeSweep ==
    (pc # "idle" /\ LacksRequired(params)) =>
        /\ ncalls = 0
        /\ Returned
        /\ IsErrorEnvelope(response)

C2_Witness ==
    /\ Returned
    /\ HasSelector(params) /\ params.scenario = "ported"
    /\ "port_length" \notin DOMAIN params
    /\ Range(DriverKeys) \subseteq DOMAIN params
    /\ response = ErrorEnvelope(KeyErrorStr("port_length"))

(* ---------------------------------------------------------------------- *)
(* C3 *)
(* ---------------------------------------------------------------------- *)

C4_PortBreakdownOnlyOnRequest ==
    (Returned /\ HasResults(response)) =>
        LET b == response.body
            asked == "port_diagram_response" \in DOMAIN params
                     /\ params.port_diagram_response = TRUE
            extra == DOMAIN b \cap {"spl_port", "spl_diaphragm"}
        IN  IF params.scenario = "ported"
            THEN /\ asked => extra = {"spl_port", "spl_diaphragm"}
                 /\ ~asked => extra = {}
                 /\ \A k \in extra :
                        /\ DOMAIN b[k] = {"ported"}
                        /\ Len(b[k]["ported"]) = Len(b.frequencies)
            ELSE extra = {}

C4_Witness ==
    /\ Returned /\ HasResults(response)
    /\ params.scenario = "ported"
    /\ "port_diagram_response" \in DOMAIN params /\ params.port_diagram_response
    /\ Len(response.body.spl_port["ported"]) = NumPoints
    /\ Len(response.body.spl_diaphragm["ported"]) = NumPoints

(* ---------------------------------------------------------------------- *)
(* C5 *)
(* ---------------------------------------------------------------------- *)

\* C5: calling calculate_speaker_response again with a parameter mapping it
\* has answered before, whatever other requests were served in between,
\* yields the identical output (the same result sequences or the same
\* error envelope).
C5_SameRequestSameAnswer ==
    (Returned /\ memo.set /\ memo.req = params) => response = memo.resp

C5_Witness ==
    /\ Returned /\ memo.set /\ memo.between
    /\ memo.req = params
    /\ HasResults(response)
    /\ params.scenario = "ported"
    /\ response = memo.resp

(* ---------------------------------------------------------------------- *)
(* C6 *)
(* ---------------------------------------------------------------------- *)

\* The request has a valid selector and every key its topology reads
\* except, possibly, the keys in S.
CompleteExcept(p, S) ==
    /\ HasSelector(p) /\ p.scenario \in Topologies
    /\ RequiredKeys(p) \ S \subseteq DOMAIN p

\* C6: when the request does not supply rms, the driver is still built
\* (Rms derived as (1/Qms) * sqrt(Mms/Cms)) and the sweep returns result
\* arrays rather than an error envelope.
C6_MissingRmsIsDerived ==
    (Returned /\ CompleteExcept(params, {"rms"}) /\ "rms" \notin DOMAIN params
        /\ \A k \in DOMAIN params \cap NumericKeys : params[k] > 0)
    => HasResults(response)

(* ---------------------------------------------------------------------- *)
(* C7 *)
(* ---------------------------------------------------------------------- *)

\* C7: a sealed or ported request that gives the box as a volume instead of
\* the edges lx, ly, lz is accepted: result arrays are returned, not an
\* error envelope.
C7_VolumeInsteadOfEdgesAccepted ==
    (Returned /\ CompleteExcept(params, Range(SealedKeys))
        /\ params.scenario \in {"sealed", "ported"}
        /\ "vb" \in DOMAIN params /\ DOMAIN params \cap Range(SealedKeys) = {})
    => HasResults(response)

(* ---------------------------------------------------------------------- *)
(* C8 *)
(* ---------------------------------------------------------------------- *)

\* C8: a numeric failure raised while evaluating one frequency sample does
\* not abort the sweep: once a calculate_spl or calculate_impedance call
\* has been made, the response carries the spl and impedance sequences and
\* is not the error envelope.
C8_SampleFailureDoesNotAbortSweep ==
    (Returned /\ ncalls > 0) => (HasResults(response) /\ ~IsErrorEnvelope(response))

(* ---------------------------------------------------------------------- *)
(* C9 *)
(* ---------------------------------------------------------------------- *)

\* Mmd = Mms - 16 * rho0 * a^3 / 3 of the driver built from p, in mg.
MovingMass(p) == Loudspeaker(p, ModuleGlobals).val.Mmd

\* A complete request for a degenerate configuration: box volume <= 0,
\* port area 0, or Mmd <= 0.
Degenerate(p) ==
    /\ CompleteExcept(p, {})
    /\ ~Loudspeaker(p, ModuleGlobals).raised
    /\ \/ p.scenario \in {"sealed", "ported"} /\ p.lx * p.ly * p.lz <= 0
       \/ p.scenario = "ported" /\ p.port_section_aeria = 0
       \/ MovingMass(p) <= 0

\* C9: a request describing a degenerate configuration is rejected up
\* front: the error envelope is returned without any frequency sample
\* being evaluated, and result sequences are never returned.
C9_DegenerateRejectedUpFront ==
    (pc # "idle" /\ Degenerate(params)) =>
        /\ Returned
        /\ ncalls = 0
        /\ IsErrorEnvelope(response)

(* ---------------------------------------------------------------------- *)
(* C10 *)
(* ---------------------------------------------------------------------- *)

\* The product of the matrices ms taken from left to right.
RECURSIVE LeftProduct(_)
LeftProduct(ms) ==
    IF Len(ms) = 1 THEN ms[1]
    ELSE Dot(LeftProduct(SubSeq(ms, 1, Len(ms) - 1)), ms[Len(ms)])

\* The stages of enclosure enc at frequency f in signal-flow order.
SignalFlowStages(enc, f, g) ==
    LET lsp == enc.lsp
        C == StageC(ElectricalImpedance(lsp, f))
        E == StageE(lsp)
        D == StageD(MechanicalImpedance(lsp, f))
        M == StageM(lsp)
        F == StageF(calculate_diaphragm_radiation_impedance(lsp, f, g))
    IN  IF enc.cls = "SealedBoxEnclosure"
        THEN <<C, E, D, M, F,
               StageB(calculate_simplified_box_impedance_Zab(enc, f, SEALED_B).val)>>
        ELSE <<C, E, D, M, F,
               StageL(calculate_leakage_resistance(enc).val),
               StageB(calculate_simplified_box_impedance_Zab(enc, f, PORTED_B).val),
               PortedNetwork(enc, f, g).val.P,
               PortedNetwork(enc, f, g).val.R>>

\* The matrix A inside an SPL value of a sealed and of a ported enclosure.
ChainOfSpl(enc, t) ==
    IF enc.cls = "SealedBoxEnclosure" THEN t.x.x.z.x.y.x ELSE t.x.x.z.y.y.x

\* C10: at every frequency the composite matrix is the left-to-right
\* product C E D M F B (sealed) or C E D M F L B P R (ported) of the stages
\* in signal-flow order, and the reported impedance is |A[1,1] / A[2,1]| of
\* that product.
C10_ChainInSignalFlowOrder ==
    enclosure.cls \in {"SealedBoxEnclosure", "PortedBoxEnclosure"} =>
        /\ \A i \in DOMAIN impedance :
              LET A == LeftProduct(SignalFlowStages(enclosure, frequencies[i], globals))
              IN  impedance[i] = T1("abs", T2("div", Entry(A, 1, 1), Entry(A, 2, 1)))
        /\ \A i \in DOMAIN spl :
              ChainOfSpl(enclosure, spl[i])
                  = LeftProduct(SignalFlowStages(enclosure, frequencies[i], globals))

C10_Witness ==
    /\ Returned /\ HasResults(response)
    /\ enclosure.cls = "PortedBoxEnclosure"
    /\ Len(impedance) = NumPoints
    /\ memo.set /\ HasResults(memo.resp) /\ memo.req.scenario = "sealed"

(* ---------------------------------------------------------------------- *)
(* C11                                                                     *)
(* ---------------------------------------------------------------------- *)

\* The wave number term inside an impedance value of a box enclosure: the
\* result of the calculate_wave_number call made for that sample.
WaveNumberOfImpedance(enc, z) ==
    LET A == z.x.x.x
        F == IF enc.cls = "SealedBoxEnclosure" THEN A.x.y ELSE A.x.x.x.x.y
    IN  F.r1c2.k

\* C11: every frequency the sweep passes to calculate_spl and
\* calculate_impedance, and through them to calculate_wave_number, is an
\* element of the grid and is at least 20 Hz, hence strictly positive; the
\* division R_f / f never sees f = 0.
C11_SweepFrequenciesPositive ==
    /\ \A i \in DOMAIN frequencies : frequencies[i] >= F_MIN /\ frequencies[i] > 0
    /\ pc \in {"spl", "impedance"} =>
          /\ idx \in DOMAIN frequencies
          /\ frequencies[idx] >= F_MIN
    /\ enclosure.cls \in {"SealedBoxEnclosure", "PortedBoxEnclosure"} =>
          \A i \in DOMAIN impedance :
              LET k == WaveNumberOfImpedance(enclosure, impedance[i])
              IN  k.op = "k" /\ k.f = Num(frequencies[i]) /\ k.f.v > 0

\* The lowest grid point, 20 Hz, has been passed to calculate_impedance and
\* calculate_wave_number of a ported box.
C11_Witness ==
    /\ pc = "impedance"
    /\ enclosure.cls = "PortedBoxEnclosure"
    /\ Len(impedance) >= 1
    /\ WaveNumberOfImpedance(enclosure, impedance[1]).f.v = F_MIN
    /\ ncalls > NumPoints

(* ---------------------------------------------------------------------- *)
(* C12                                                                     *)
(* ---------------------------------------------------------------------- *)

\* C12: during and after the sweeps the Loudspeaker and the enclosure are
\* attribute for attribute what the constructors built from the request,
\* and the module-level names, m and R among them, have the values the
\* module gave them: no per-frequency call changes any of them.
C12_SamplesChangeNoAttributeOrConstant ==
    /\ globals = ModuleGlobals
    /\ globals.m = M_VISCOSITY /\ globals.R = R_FIBRE
    /\ (pc \in {"spl", "impedance", "returned"} /\ enclosure.cls # "None") =>
          LET built == Setup(params, ModuleGlobals).val
          IN  /\ loudspeaker = built.loudspeaker
              /\ enclosure = built.enclosure

\* Both sweeps of a ported box ran to their end: every per-frequency
\* method, the loops over m and the assignment to R included, was executed
\* on each grid point.
C12_Witness ==
    /\ pc = "returned"
    /\ HasResults(response)
    /\ enclosure.cls = "PortedBoxEnclosure"
    /\ ncalls = 2 * NumPoints
    /\ enclosure = Setup(params, ModuleGlobals).val.enclosure
    /\ globals = ModuleGlobals

(* ---------------------------------------------------------------------- *)
(* C13: the sweeps as maps whose elements are evaluated in any order       *)
(* ---------------------------------------------------------------------- *)

\* Element i of [enclosure.calculate_spl(f) for f in frequencies], taken by
\* a worker at any moment of the sweep; the workers share the enclosure,
\* the Loudspeaker and the module namespace.  spl, spl_port and
\* spl_diaphragm hold the elements evaluated so far, by index.
SplSampleAt(i) ==
    /\ pc = "spl"
    /\ i \in DOMAIN frequencies \ DOMAIN spl
    /\ ncalls' = ncalls + 1
    /\ idx' = i
    /\ LET r == calculate_spl(enclosure, frequencies[i], globals)
           ported == enclosure.cls = "PortedBoxEnclosure"
           split == ported /\ PortDiagramResponse(params)
       IN  IF r.raised
           THEN /\ response' = ErrorEnvelope(r.msg)
                /\ pc' = "returned"
                /\ UNCHANGED <<spl, spl_port, spl_diaphragm, globals, enclosure>>
           ELSE /\ spl' = (i :> (IF ported THEN MainSpl(split, r.val) ELSE r.val)) @@ spl
                /\ spl_port' = IF split THEN (i :> r.val[2]) @@ spl_port ELSE spl_port
                /\ spl_diaphragm' = IF split THEN (i :> r.val[3]) @@ spl_diaphragm
                                    ELSE spl_diaphragm
                /\ globals' = NamespaceAfterSample(enclosure, globals)
                /\ enclosure' = EnclosureAfterSample(enclosure)
                /\ pc' = IF DOMAIN spl \cup {i} = DOMAIN frequencies
                         THEN "impedance" ELSE "spl"
                /\ UNCHANGED response
    /\ UNCHANGED <<params, frequencies, loudspeaker, impedance, memo>>

\* Element i of [enclosure.calculate_impedance(f) for f in frequencies],
\* taken by a worker at any moment of the sweep; when all elements are
\* there the result dict is returned.
ImpedanceSampleAt(i) ==
    /\ pc = "impedance"
    /\ i \in DOMAIN frequencies \ DOMAIN impedance
    /\ ncalls' = ncalls + 1
    /\ idx' = i
    /\ LET r == calculate_impedance(enclosure, frequencies[i], globals)
       IN  IF r.raised
           THEN /\ response' = ErrorEnvelope(r.msg)
                /\ pc' = "returned"
                /\ UNCHANGED <<impedance, globals, enclosure>>
           ELSE /\ impedance' = (i :> r.val) @@ impedance
                /\ globals' = NamespaceAfterSample(enclosure, globals)
                /\ enclosure' = EnclosureAfterSample(enclosure)
                /\ IF DOMAIN impedance \cup {i} = DOMAIN frequencies
                   THEN /\ pc' = "returned"
                        /\ response' = Results(params, frequencies, spl, spl_port,
                                               spl_diaphragm, (i :> r.val) @@ impedance)
                   ELSE /\ pc' = "impedance"
                        /\ UNCHANGED response
    /\ UNCHANGED <<params, frequencies, loudspeaker,
                   spl, spl_port, spl_diaphragm, memo>>

NextAnyOrder ==
    \/ \E p \in Requests : Call(p)
    \/ \E i \in 1..NumPoints : SplSampleAt(i)
    \/ \E i \in 1..NumPoints : ImpedanceSampleAt(i)
    \/ Finish

SpecAnyOrder == Init /\ [][NextAnyOrder]_vars

\* <<enclosure, module namespace>> after n per-frequency calls in a row.
RECURSIVE AfterSamples(_, _, _)
AfterSamples(enc, g, n) ==
    IF n = 0 THEN <<enc, g>>
    ELSE AfterSamples(EnclosureAfterSample(enc), NamespaceAfterSample(enc, g), n - 1)

\* The calls of the sequential sweep of request p in the order the two
\* list comprehensions make them: calculate_spl on grid points 1..N, then
\* calculate_impedance on grid points 1..N, each with its outcome.
SequentialCalls(p) ==
    LET built == Setup(p, ModuleGlobals).val
        N == Len(built.frequencies)
    IN  [j \in 1..(2 * N) |->
            LET st == AfterSamples(built.enclosure, ModuleGlobals, j - 1)
            IN  IF j <= N
                THEN calculate_spl(st[1], built.frequencies[j], st[2])
                ELSE calculate_impedance(st[1], built.frequencies[j - N], st[2])]

\* What the sequential sweep of request p returns (p has an enclosure).
SequentialResponse(p) ==
    LET built == Setup(p, ModuleGlobals).val
        N == Len(built.frequencies)
        calls == SequentialCalls(p)
        failed == {j \in DOMAIN calls : calls[j].raised}
        first == CHOOSE j \in failed : \A h \in failed : j <= h
        ported == built.enclosure.cls = "PortedBoxEnclosure"
        split == ported /\ PortDiagramResponse(p)
    IN  IF failed # {} THEN ErrorEnvelope(calls[first].msg)
        ELSE Results(p, built.frequencies,
                     [i \in 1..N |-> IF ported THEN MainSpl(split, calls[i].val)
                                     ELSE calls[i].val],
                     IF split THEN [i \in 1..N |-> calls[i].val[2]] ELSE <<>>,
                     IF split THEN [i \in 1..N |-> calls[i].val[3]] ELSE <<>>,
                     [i \in 1..N |-> calls[N + i].val])

\* C13: whatever the order in which the elements of the two sweeps are
\* evaluated by workers sharing the objects, every element is the value
\* the sequential sweep has at that index, which is the value computed
\* from the request and frequencies[i] alone, and the answer returned is
\* the one the sequential sweep returns.
C13_AnyOrderSameSequences ==
    (pc \in {"spl", "impedance", "returned"} /\ enclosure.cls # "None") =>
        LET built == Setup(params, ModuleGlobals).val
            N == Len(frequencies)
            calls == SequentialCalls(params)
            ported == enclosure.cls = "PortedBoxEnclosure"
            split == ported /\ PortDiagramResponse(params)
        IN  /\ \A i \in DOMAIN spl :
                  /\ ~calls[i].raised
                  /\ spl[i] = (IF ported THEN MainSpl(split, calls[i].val)
                               ELSE calls[i].val)
                  /\ spl[i] = (LET r == calculate_spl(built.enclosure, frequencies[i],
                                                      ModuleGlobals)
                               IN  IF ported THEN MainSpl(split, r.val) ELSE r.val)
            /\ \A i \in DOMAIN impedance :
                  /\ ~calls[N + i].raised
                  /\ impedance[i] = calls[N + i].val
                  /\ impedance[i] = calculate_impedance(built.enclosure, frequencies[i],
                                                        ModuleGlobals).val
            /\ pc = "returned" => response = SequentialResponse(params)

\* A ported request answered after both sweeps were completed out of grid
\* order: the element of the first grid point was the last one evaluated.
C13_Witness ==
    /\ pc = "returned"
    /\ HasResults(response)
    /\ enclosure.cls = "PortedBoxEnclosure"
    /\ idx = 1
    /\ ncalls = 2 * NumPoints
    /\ response = SequentialResponse(params)

(* ---------------------------------------------------------------------- *)
(* C14                                                                     *)
(* ---------------------------------------------------------------------- *)

\* Request p without its port_diagram_response entry.
WithoutFlag(p) == Restrict(p, DOMAIN p \ {"port_diagram_response"})
\* Request p with the breakdown switched the other way.
WithFlagToggled(p) ==
    WithoutFlag(p) @@ [port_diagram_response |-> ~PortDiagramResponse(p)]
\* Two answers carry the same total SPL and impedance curves.
SameTotals(r1, r2) ==
    /\ HasResults(r1) /\ HasResults(r2)
    /\ r1.body.spl = r2.body.spl
    /\ r1.body.impedance = r2.body.impedance

\* C14: a ported request answered with result sequences has the same
\* spl["ported"] and impedance["ported"], element for element, as the same
\* request with port_diagram_response switched the other way; and an
\* earlier answer kept by the caller to a request that differs only in
\* that flag carries the same two sequences.
C14_TotalsIndependentOfBreakdownFlag ==
    (pc = "returned" /\ HasResults(response) /\ params.scenario = "ported") =>
        /\ SameTotals(response, SequentialResponse(WithFlagToggled(params)))
        /\ (/\ memo.set
            /\ HasResults(memo.resp)
            /\ WithoutFlag(memo.req) = WithoutFlag(params))
               => SameTotals(response, memo.resp)

\* The base ported request was answered with the breakdown, and the same
\* request with port_diagram_response = false is answered now, without
\* the breakdown and with the same totals.
C14_Witness ==
    /\ pc = "returned"
    /\ memo.set
    /\ memo.req = BaseValue @@ [scenario |-> "ported", port_diagram_response |-> TRUE]
    /\ params = BaseValue @@ [scenario |-> "ported", port_diagram_response |-> FALSE]
    /\ HasResults(response)
    /\ "spl_port" \in DOMAIN memo.resp.body
    /\ "spl_port" \notin DOMAIN response.body
    /\ SameTotals(response, memo.resp)

(* ---------------------------------------------------------------------- *)
(* C15                                                                     *)
(* ---------------------------------------------------------------------- *)

\* The box edges, the port length and the port area of request p are all
\* given and positive.
PositivePortedGeometry(p) ==
    \A k \in Range(PortedKeys) : k \in DOMAIN p /\ p[k] > 0

\* The leakage resistance inside an impedance value of a ported box: Ral of
\* stage L = [[1, 0], [1 / Ral, 1]] of the chain C E D M F L B P R.
LeakageOfImpedance(z) == z.x.x.x.x.x.x.y.r2c1.y

\* C15: for a ported enclosure built from positive edges, port length and
\* port area, the apparent compliance Cab = CAA + GAMMA * CAM, computed
\* from the attributes Va and Vm the constructor set, is strictly positive
\* at every sample, so that Ral = 7 / (2 pi fb Cab) is finite and stage L
\* has a non-zero shunt 1 / Ral.
C15_ApparentComplianceStrictlyPositive ==
    (/\ pc \in {"spl", "impedance", "returned"}
     /\ enclosure.cls = "PortedBoxEnclosure"
     /\ PositivePortedGeometry(params)) =>
        /\ ApparentCompliance(enclosure) > 0
        /\ \A i \in DOMAIN impedance :
              LET Ral == LeakageOfImpedance(impedance[i])
              IN  Ral.op = "Ral" /\ Ral.Cab > 0

====
